---------------------------- MODULE Spec2Model ----------------------------
(***************************************************************************)
(* A model of claude-to-openclaw-session.py: the two-pass conversion of a  *)
(* Claude Code JSONL transcript into OpenClaw JSONL (detect_model, then    *)
(* convert), followed by validate_output and register_session, as main     *)
(* drives them.                                                            *)
(*                                                                         *)
(* JSON values are tagged records.  A Python string is a sequence of       *)
(* lexemes: each lexeme stands for a fixed run of characters, and the      *)
(* lexemes "<", ">", " " and "/" stand for themselves, so that substring   *)
(* search, strip, join and split act on sequences exactly as the source    *)
(* acts on characters ("<command-name>" is <<"<", "command-name", ">">>).  *)
(* An uncaught Python exception is the value Raise, and ends the process.  *)
(*                                                                         *)
(* An input line is blank, rejected by json.loads, or a JSON value.  The   *)
(* values drawn are non-objects and objects; in an object, type, isMeta,   *)
(* message, role and content range over well-typed and ill-typed values,   *)
(* and uuid, parentUuid, timestamp and model are strings, null or absent.  *)
(***************************************************************************)
EXTENDS Integers, Sequences, FiniteSets, TLC

\* ------------------------------------------------------------------------
\* JSON values, as json.loads builds them
\* ------------------------------------------------------------------------

JNull == [k |-> "null"]

JStr(s) == [k |-> "str", s |-> s]

JNum(n) == [k |-> "num", n |-> n]

JBool(b) == [k |-> "bool", b |-> b]

JList(xs) == [k |-> "list", xs |-> xs]

JObj(f) == [k |-> "obj", f |-> f]

\* A one-lexeme string.
W(w) == JStr(<<w>>)

EmptyStr == JStr(<<>>)

EmptyObj == JObj([x \in {} |-> JNull])

\* An uncaught exception.
Raise == [k |-> "raise"]

\* dict.get(key, default)
Get(d, key, default) == IF key \in DOMAIN d.f THEN d.f[key] ELSE default

\* Python truthiness of a JSON value.
Truthy(v) ==
    CASE v.k = "null" -> FALSE
      [] v.k = "str"  -> v.s # <<>>
      [] v.k = "num"  -> v.n # 0
      [] v.k = "bool" -> v.b
      [] v.k = "list" -> v.xs # <<>>
      [] v.k = "obj"  -> DOMAIN v.f # {}
      [] OTHER        -> FALSE

\* ------------------------------------------------------------------------
\* Strings
\* ------------------------------------------------------------------------

Whitespace == {" "}

\* tag in content
Contains(s, t) ==
    \E i \in 0..(Len(s) - Len(t)) : SubSeq(s, i + 1, i + Len(t)) = t

\* str.strip()
RECURSIVE LStrip(_)
LStrip(s) == IF s # <<>> /\ Head(s) \in Whitespace THEN LStrip(Tail(s)) ELSE s

RECURSIVE RStrip(_)
RStrip(s) ==
    IF s # <<>> /\ s[Len(s)] \in Whitespace
    THEN RStrip(SubSeq(s, 1, Len(s) - 1))
    ELSE s

Strip(s) == RStrip(LStrip(s))

\* " ".join(parts)
RECURSIVE Join(_)
Join(parts) ==
    IF parts = <<>> THEN <<>>
    ELSE IF Len(parts) = 1 THEN parts[1]
    ELSE parts[1] \o <<" ">> \o Join(Tail(parts))

COMMAND_NOISE ==
    << <<"<", "command-name", ">">>,
       <<"<", "local-command-stdout", ">">>,
       <<"<", "local-command-caveat", ">">>,
       <<"<", "command-message", ">">>,
       <<"<", "command-args", ">">> >>

\* A bug: only the first tag is looked for.
is_command_noise_first(content) ==
    IF content.k # "str" THEN FALSE ELSE Contains(content.s, COMMAND_NOISE[1])

is_command_noise(content) ==
    IF content.k # "str" THEN FALSE
    ELSE \E n \in 1..Len(COMMAND_NOISE) : Contains(content.s, COMMAND_NOISE[n])

\* ------------------------------------------------------------------------
\* normalize_content
\* ------------------------------------------------------------------------

Skip == [k |-> "skip"]

TextBlock(text) == JObj([type |-> W("text"), text |-> text])

\* One element of a tool_result's nested content list.
NestedBlock(b) ==
    IF b.k # "obj" THEN Raise
    ELSE IF Get(b, "type", JNull) = W("text")
         THEN TextBlock(Get(b, "text", EmptyStr))
         ELSE b

ResultContent(block) ==
    LET c  == Get(block, "content", JNull)
        rc == IF Truthy(c) THEN c ELSE EmptyStr
    IN  IF rc.k = "str" THEN JList(<<TextBlock(rc)>>)
        ELSE IF rc.k = "list"
             THEN IF \E j \in 1..Len(rc.xs) : NestedBlock(rc.xs[j]) = Raise
                  THEN Raise
                  ELSE JList([j \in 1..Len(rc.xs) |-> NestedBlock(rc.xs[j])])
             ELSE rc

\* One iteration of the loop over a content list: Raise, Skip, or the block
\* appended.
NormBlock(block) ==
    IF block.k # "obj" THEN Raise
    ELSE LET btype == Get(block, "type", W("text")) IN
         IF btype = W("text")
         THEN LET text == Get(block, "text", EmptyStr) IN
              IF text.k # "str" THEN Raise
              ELSE IF Strip(text.s) = <<>> THEN Skip
              ELSE TextBlock(text)
         ELSE IF btype = W("thinking")
         THEN JObj([type      |-> W("thinking"),
                    thinking  |-> Get(block, "thinking", EmptyStr),
                    signature |-> Get(block, "signature", EmptyStr)])
         ELSE IF btype = W("tool_use")
         THEN JObj([type  |-> W("tool_use"),
                    id    |-> Get(block, "id", EmptyStr),
                    name  |-> Get(block, "name", EmptyStr),
                    input |-> Get(block, "input", EmptyObj)])
         ELSE IF btype = W("tool_result")
         THEN LET rc == ResultContent(block) IN
              IF rc = Raise THEN Raise
              ELSE JObj([type        |-> W("tool_result"),
                         tool_use_id |-> Get(block, "tool_use_id", EmptyStr),
                         content     |-> rc])
         ELSE block

RECURSIVE Survivors(_)
Survivors(xs) ==
    IF xs = <<>> THEN <<>>
    ELSE LET r == NormBlock(Head(xs)) IN
         IF r = Skip THEN Survivors(Tail(xs)) ELSE <<r>> \o Survivors(Tail(xs))

\* A bug: a string is tested without strip, so blanks count as content.
normalize_content_nostrip(content) ==
    IF content.k = "str"
    THEN IF content.s = <<>> THEN JNull ELSE JList(<<TextBlock(content)>>)
    ELSE IF content.k = "list"
    THEN IF \E j \in 1..Len(content.xs) : NormBlock(content.xs[j]) = Raise
         THEN Raise
         ELSE LET blocks == Survivors(content.xs) IN
              IF blocks # <<>> THEN JList(blocks) ELSE JNull
    ELSE JNull

\* The list of blocks, JNull for None, or Raise.
normalize_content(content) ==
    IF content.k = "str"
    THEN IF Strip(content.s) = <<>> THEN JNull ELSE JList(<<TextBlock(content)>>)
    ELSE IF content.k = "list"
    THEN IF \E j \in 1..Len(content.xs) : NormBlock(content.xs[j]) = Raise
         THEN Raise
         ELSE LET blocks == Survivors(content.xs) IN
              IF blocks # <<>> THEN JList(blocks) ELSE JNull
    ELSE JNull

\* ------------------------------------------------------------------------
\* short_id, parse_ts_ms
\* ------------------------------------------------------------------------

\* hashlib.md5(s.encode()).hexdigest() for the identifiers of the model.
Md5Hex(s) ==
    CASE s = <<"u1">> ->
         <<"e", "4", "7", "7", "4", "c", "d", "d", "a", "0", "7", "9", "3", "f", "8", "6", "4", "1", "4", "e", "8", "b", "9", "1", "4", "0", "b", "b", "6", "d", "b", "4">>
      [] s = <<"u2">> ->
         <<"2", "7", "0", "c", "1", "b", "0", "8", "4", "f", "3", "f", "1", "4", "6", "e", "b", "5", "7", "8", "7", "0", "7", "5", "1", "5", "8", "d", "9", "c", "5", "3">>
      [] s = <<"u3">> ->
         <<"5", "3", "2", "a", "7", "b", "8", "e", "0", "3", "2", "8", "a", "8", "d", "0", "5", "a", "8", "e", "6", "2", "5", "8", "b", "2", "8", "b", "9", "a", "3", "6">>
      [] s = <<"r1">> ->
         <<"7", "c", "9", "2", "c", "f", "1", "e", "e", "e", "8", "d", "9", "9", "c", "c", "8", "5", "f", "8", "3", "5", "5", "a", "3", "d", "6", "e", "4", "b", "8", "6">>
      [] s = <<"r2">> ->
         <<"d", "2", "7", "9", "1", "8", "6", "4", "2", "8", "a", "7", "5", "0", "1", "6", "b", "1", "7", "e", "4", "d", "f", "5", "e", "a", "4", "3", "d", "0", "8", "0">>
      [] s = <<"S1", "_model">> ->
         <<"d", "f", "0", "f", "b", "d", "4", "1", "5", "c", "2", "6", "8", "7", "e", "7", "4", "f", "6", "a", "6", "e", "0", "f", "4", "5", "e", "8", "f", "4", "6", "7">>
      [] s = <<>> ->
         <<"d", "4", "1", "d", "8", "c", "d", "9", "8", "f", "0", "0", "b", "2", "0", "4", "e", "9", "8", "0", "0", "9", "9", "8", "e", "c", "f", "8", "4", "2", "7", "e">>

ShortLen == 8

\* s is a Python str here (a sequence of lexemes).
short_id(s) == SubSeq(Md5Hex(s), 1, ShortLen)

\* datetime.fromisoformat(...).timestamp() for the timestamps of the model,
\* in seconds; -1 stands for the exception that parse_ts_ms catches.
IsoSeconds(s) ==
    CASE s = <<"1970-01-01T00:00:01Z">>      -> 1
      [] s = <<"1970-01-01T00:00:02Z">>      -> 2
      [] s = <<"1970-01-02T00:00:00+00:00">> -> 86400
      [] s = <<"1970-01-02T00:00:01+00:00">> -> 86401
      [] OTHER                               -> -1

parse_ts_ms(raw_ts) ==
    IF raw_ts.k # "str" THEN 0
    ELSE IF IsoSeconds(raw_ts.s) < 0 THEN 0
    ELSE IsoSeconds(raw_ts.s) * 1000

\* datetime.now(timezone.utc).isoformat(): what the clock may read.
WallClock == {W("1970-01-02T00:00:00+00:00"), W("1970-01-02T00:00:01+00:00")}

\* str(uuid.uuid4()): what the generator may draw.
RandomUuids == {W("r1"), W("r2")}

FallbackModel == W("claude-opus-4-6")

DefaultProvider == W("anthropic")

\* The arguments main passes on unchanged.
SessionId == W("S1")

Cwd == JStr(<<"/", "home", "/", "user">>)

\* ------------------------------------------------------------------------
\* The per-record body of convert's loop
\* ------------------------------------------------------------------------

Roles == {W("user"), W("assistant")}

\* get_short: the short id and the id_map after the call; Raise when
\* uuid_str is no str (unhashable, or without encode).
get_short(idmap, uuid_str) ==
    IF uuid_str.k # "str" THEN Raise
    ELSE IF uuid_str.s \in DOMAIN idmap
    THEN [k |-> "ok", short |-> JStr(idmap[uuid_str.s]), map |-> idmap]
    ELSE [k |-> "ok", short |-> JStr(short_id(uuid_str.s)),
          map |-> idmap @@ (uuid_str.s :> short_id(uuid_str.s))]

\* A bug: a parent is resolved only when it was already met.
ParentShort_SeenOnly(idmap, parent_uuid) ==
    IF Truthy(parent_uuid) /\ parent_uuid.k = "str" /\ parent_uuid.s \in DOMAIN idmap
    THEN get_short(idmap, parent_uuid)
    ELSE [k |-> "ok", short |-> JNull, map |-> idmap]

\* parent_short = get_short(parent_uuid) if parent_uuid else None
ParentShort(idmap, parent_uuid) ==
    IF Truthy(parent_uuid) THEN get_short(idmap, parent_uuid)
    ELSE [k |-> "ok", short |-> JNull, map |-> idmap]

\* The texts of the top-level text blocks of a normalized content.
RECURSIVE Texts(_)
Texts(blocks) ==
    IF blocks = <<>> THEN <<>>
    ELSE IF Get(Head(blocks), "type", JNull) = W("text")
    THEN <<Get(Head(blocks), "text", EmptyStr).s>> \o Texts(Tail(blocks))
    ELSE Texts(Tail(blocks))

text_only(norm_content) == JStr(Join(Texts(norm_content.xs)))

\* message.model and message.id, copied for an assistant only when truthy.
InnerMessage(msg, role, norm_content, raw_ts) ==
    LET base == [role      |-> role,
                 content   |-> norm_content,
                 timestamp |-> JNum(parse_ts_ms(raw_ts))]
        m1 == IF role = W("assistant") /\ Truthy(Get(msg, "model", JNull))
              THEN base @@ ("model" :> Get(msg, "model", JNull)) ELSE base
        m2 == IF role = W("assistant") /\ Truthy(Get(msg, "id", JNull))
              THEN m1 @@ ("id" :> Get(msg, "id", JNull)) ELSE m1
    IN  JObj(m2)

oc_message(short, parent_short, raw_ts, inner) ==
    JObj([type      |-> W("message"),
          id        |-> short,
          parentId  |-> parent_short,
          timestamp |-> raw_ts,
          message   |-> inner])

Skipped(idmap) == [res |-> "skipped", map |-> idmap, at |-> "none"]

Raised(idmap, where) == [res |-> "raised", map |-> idmap, at |-> where]

\* One parsed line d: what the loop body does with it.  res is "skipped",
\* "converted" (with the message line written) or "raised".
ConvertRecord(d, filter_commands, first, idmap, fresh) ==
    IF d.k # "obj" THEN Raised(idmap, "convert")
    ELSE IF Get(d, "type", JNull) \notin Roles THEN Skipped(idmap)
    ELSE IF Truthy(Get(d, "isMeta", JNull)) THEN Skipped(idmap)
    ELSE LET msg == Get(d, "message", EmptyObj) IN
    IF msg.k # "obj" THEN Skipped(idmap)
    ELSE LET role    == Get(msg, "role", JNull)
             content == Get(msg, "content", JNull) IN
    IF role \notin Roles THEN Skipped(idmap)
    ELSE IF filter_commands /\ role = W("user") /\ content.k = "str"
            /\ is_command_noise(content)
    THEN Skipped(idmap)
    ELSE LET norm_content == normalize_content(content) IN
    IF norm_content = Raise THEN Raised(idmap, "normalize_content")
    ELSE IF norm_content = JNull THEN Skipped(idmap)
    ELSE IF filter_commands /\ role = W("user")
            /\ is_command_noise(text_only(norm_content))
    THEN Skipped(idmap)
    ELSE LET raw_ts      == Get(d, "timestamp", first)
             msg_uuid    == Get(d, "uuid", fresh)
             parent_uuid == Get(d, "parentUuid", JNull)
             own         == get_short(idmap, msg_uuid) IN
    IF own = Raise THEN Raised(idmap, "get_short")
    ELSE LET parent == ParentShort(own.map, parent_uuid) IN
    IF parent = Raise THEN Raised(own.map, "get_short")
    ELSE [res |-> "converted", map |-> parent.map, at |-> "none",
          msg |-> oc_message(own.short, parent.short, raw_ts,
                             InnerMessage(msg, role, norm_content, raw_ts))]

\* provider, model_id = model_id.split("/", 1) when "/" in model_id; a
\* number raises at the test for "/".
SplitAt(s) == CHOOSE i \in 1..Len(s) : s[i] = "/" /\ \A j \in 1..(i - 1) : s[j] # "/"

ModelSplit(model) ==
    CASE model.k = "str" ->
            IF Contains(model.s, <<"/">>)
            THEN [k |-> "ok",
                  provider |-> JStr(SubSeq(model.s, 1, SplitAt(model.s) - 1)),
                  model_id |-> JStr(SubSeq(model.s, SplitAt(model.s) + 1, Len(model.s)))]
            ELSE [k |-> "ok", provider |-> DefaultProvider, model_id |-> model]
      [] model.k \in {"num", "bool"} -> Raise

SessionHeader(first, provider, model) ==
    JObj([type      |-> W("session"),
          version   |-> JNum(3),
          id        |-> SessionId,
          timestamp |-> first,
          cwd       |-> Cwd,
          model     |-> JStr(provider.s \o <<"/">> \o model.s)])

ModelChange(first, provider, model) ==
    JObj([type      |-> W("model_change"),
          id        |-> JStr(short_id(SessionId.s \o <<"_model">>)),
          parentId  |-> JNull,
          timestamp |-> first,
          provider  |-> provider,
          modelId   |-> model])

\* ------------------------------------------------------------------------
\* Input lines
\* ------------------------------------------------------------------------

\* A line that is empty after strip, a line json.loads rejects, and a line
\* it parses to v.
Blank == [raw |-> "blank", v |-> JNull]

Bad == [raw |-> "bad", v |-> JNull]

J(v) == [raw |-> "json", v |-> v]

Rec(f) == J(JObj(f))

Message(role, content) == JObj([role |-> W(role), content |-> content])

\* A well-formed record of the given type and role.
Plain(type, role, content, uuid) ==
    Rec([type |-> W(type), message |-> Message(role, content), uuid |-> W(uuid)])

Hi == W("hi")

Ts1 == W("1970-01-01T00:00:01Z")

Ts2 == W("1970-01-01T00:00:02Z")

Block(type, text) == JObj([type |-> W(type), text |-> text])

\* "<command-name>run</command-name>"
CommandRun ==
    JStr(<<"<", "command-name", ">", "run", "<", "/", "command-name", ">">>)

\* Records that differ in type, role, isMeta and the shape of message.
LinesRoles ==
    { Plain("user", "user", Hi, "u1"),
      Plain("user", "assistant", Hi, "u2"),
      Plain("assistant", "user", CommandRun, "u1"),
      Plain("assistant", "user", Hi, "u3"),
      Plain("assistant", "assistant", JList(<<Block("text", Hi)>>), "u2"),
      Plain("system", "user", Hi, "u1"),
      Plain("user", "system", Hi, "u1"),
      Rec([type |-> W("user"), message |-> JObj([content |-> Hi]), uuid |-> W("u1")]),
      Rec([type |-> W("user"), isMeta |-> JBool(TRUE),
           message |-> Message("user", Hi), uuid |-> W("u1")]),
      Rec([type |-> W("user"), message |-> Hi, uuid |-> W("u1")]),
      Rec([type |-> W("user"), uuid |-> W("u1")]),
      Rec([message |-> Message("user", Hi), uuid |-> W("u1")]) }

\* The content values of the model: strings, lists of blocks, and the
\* malformed shapes json.loads can hand to normalize_content.
Contents ==
    { EmptyStr,
      JStr(<<" ", " ">>),
      Hi,
      JStr(<<" ", "hi", " ">>),
      CommandRun,
      JStr(<<"x", " ", "<", "command-args", ">">>),
      JNull,
      JNum(7),
      JList(<<>>),
      JList(<<Block("text", EmptyStr), Block("text", JStr(<<" ">>))>>),
      JList(<<Block("text", JStr(<<"<", "local-command-stdout", ">", "ok">>))>>),
      JList(<<Block("text", Hi),
              Block("text", JStr(<<"<", "local-command-caveat", ">">>))>>),
      JList(<<Block("text", JStr(<<"<", "command-message">>)),
              Block("text", JStr(<<">">>))>>),
      JList(<<JObj([text |-> Hi])>>),
      JList(<<JObj([type |-> W("thinking"), thinking |-> Hi]),
              JObj([type |-> W("tool_use"), id |-> W("t1"), name |-> W("ls")])>>),
      JList(<<JObj([type |-> W("tool_result"), tool_use_id |-> W("t1"),
                    content |-> W("out")])>>),
      JList(<<JObj([type |-> W("tool_result"), tool_use_id |-> W("t1"),
                    content |-> JList(<<Block("text", JStr(<<"<", "command-name", ">">>)),
                                        JObj([type |-> W("image")])>>)])>>),
      JList(<<JObj([type |-> W("image"), text |-> JStr(<<"<", "command-name", ">">>)])>>),
      JList(<<W("abc")>>),
      JList(<<Block("text", Hi), JNum(5)>>),
      JList(<<Block("text", JNull)>>),
      JList(<<JObj([type |-> W("tool_result"), content |-> JList(<<JNum(5)>>)])>>) }

\* Records whose content is a string or a scalar.
LinesContentStr ==
    { Plain("user", "user", c, "u1") : c \in {c \in Contents : c.k # "list"} }
    \cup { Plain("assistant", "assistant", c, "u2") : c \in {EmptyStr, JNum(7), CommandRun} }

\* Records whose content is a list.
LinesContentList ==
    { Plain("user", "user", c, "u1") : c \in {c \in Contents : c.k = "list"} }
    \cup { Plain("assistant", "assistant", c, "u2") : c \in {JList(<<>>), JList(<<W("abc")>>)} }

Linked(uuid, parent) ==
    Rec([type |-> W("user"), message |-> Message("user", Hi),
         uuid |-> uuid, parentUuid |-> parent])

\* Records that differ in uuid and parentUuid.
LinesLinks ==
    { Plain("user", "user", Hi, "u1"),
      Plain("user", "user", Hi, "u2"),
      Plain("system", "user", Hi, "u1"),
      Linked(W("u2"), W("u1")),
      Linked(W("u1"), W("u2")),
      Linked(W("u3"), W("u3")),
      Linked(W("u3"), JNull),
      Linked(W("u2"), EmptyStr),
      Rec([type |-> W("user"), message |-> Message("user", Hi)]),
      Rec([type |-> W("user"), message |-> Message("user", Hi), parentUuid |-> W("u1")]) }

Assistant(fields, rest) ==
    Rec([type |-> W("assistant"),
         message |-> JObj([role |-> W("assistant"), content |-> Hi] @@ fields)] @@ rest)

\* Records that differ in timestamp and in the model they announce.
LinesDetect ==
    { Blank, Bad, J(JList(<<>>)),
      Assistant([model |-> W("m1")], [uuid |-> W("u1")]),
      Assistant([model |-> JStr(<<"p", "/", "m2", "/", "x">>), id |-> W("msg_1")],
                [uuid |-> W("u2"), timestamp |-> Ts2]),
      Assistant([model |-> FallbackModel], [uuid |-> W("u1"), timestamp |-> Ts1]),
      Assistant([model |-> EmptyStr], [uuid |-> W("u1"), timestamp |-> Ts1]),
      Assistant([id |-> W("msg_2")], [uuid |-> W("u2")]),
      Rec([type |-> W("assistant"), message |-> W("m1"), timestamp |-> EmptyStr]),
      Rec([type |-> W("user"), uuid |-> W("u1"), timestamp |-> Ts1,
           message |-> JObj([role |-> W("user"), content |-> Hi, model |-> W("m1")])]),
      Rec([type |-> W("user"), uuid |-> W("u3"), timestamp |-> W("yesterday"),
           message |-> Message("user", Hi)]),
      Rec([type |-> W("system"), timestamp |-> Ts2]) }

\* A mix of lines of every outcome.
LinesCounts ==
    { Blank, Bad, J(JNum(5)),
      Rec([type |-> W("system"), timestamp |-> Ts1]),
      Rec([type |-> W("user"), message |-> Message("user", Hi),
           uuid |-> W("u1"), timestamp |-> Ts1]),
      Rec([type |-> W("assistant"), uuid |-> W("u2"), parentUuid |-> W("u1"),
           timestamp |-> Ts2,
           message |-> JObj([role |-> W("assistant"), model |-> W("m1"),
                             content |-> JList(<<Block("text", Hi)>>)])]),
      Plain("user", "user", CommandRun, "u3"),
      Plain("user", "user", JList(<<W("abc")>>), "u3") }

LinesMain ==
    { Blank, Bad, J(JList(<<>>)),
      Rec([type |-> W("user"), message |-> Message("user", Hi),
           uuid |-> W("u1"), timestamp |-> Ts1]),
      Assistant([model |-> W("m1")], [uuid |-> W("u2"), parentUuid |-> W("u1")]) }

MaxLines == 2

SeqsUpTo(S, n) == UNION {[1..m -> S] : m \in 0..n}

\* ------------------------------------------------------------------------
\* State
\* ------------------------------------------------------------------------

VARIABLES
    input,        \* the lines of the input file
    inputExists,  \* whether the input path exists
    args,         \* dry_run, no_filter_commands, register
    outFile,      \* the output file: exists, lines
    outBefore,    \* the output file as the run found it
    store,        \* sessions.json: file state, entry, backups
    pc,           \* where the process is
    lineNo,       \* the line the running loop is at
    first_ts, model_id, provider,
    id_map, converted, skipped, errors,
    exitStatus,   \* -1 while running
    events,       \* functions entered and opens of the output file
    outcome,      \* what convert's loop did with each line so far
    raisedIn      \* the function whose statement raised, or "none"

vars == <<input, inputExists, args, outFile, outBefore, store, pc, lineNo,
          first_ts, model_id, provider, id_map, converted, skipped, errors,
          exitStatus, events, outcome, raisedIn>>

NoFile == [exists |-> FALSE, lines |-> <<>>]

OldFile == [exists |-> TRUE, lines |-> <<JObj([type |-> W("old")])>>]

Stores == { [file |-> s, entry |-> FALSE, backups |-> 0] : s \in {"missing", "corrupt", "ok"} }

\* convert's parameter, as main passes it.
filter_commands == ~args.no_filter_commands

Start(at, ev) ==
    /\ outBefore = outFile
    /\ pc = at
    /\ lineNo = 1
    /\ first_ts = JNull
    /\ model_id = JNull
    /\ provider = JNull
    /\ id_map = <<>>
    /\ converted = 0
    /\ skipped = 0
    /\ errors = 0
    /\ exitStatus = -1
    /\ events = ev
    /\ outcome = <<>>
    /\ raisedIn = "none"

\* The process at the start of main, its arguments parsed.
Init ==
    /\ inputExists \in BOOLEAN
    /\ input \in IF inputExists THEN SeqsUpTo(LinesMain, MaxLines) ELSE {<<>>}
    /\ args \in [dry_run : BOOLEAN, no_filter_commands : BOOLEAN, register : BOOLEAN]
    /\ outFile \in {NoFile, OldFile}
    /\ store \in Stores
    /\ Start("main", {})

\* The process at main's call of convert.
InitConvert ==
    /\ inputExists = TRUE
    /\ input \in UNION { SeqsUpTo(L, MaxLines) :
                           L \in {LinesRoles, LinesContentStr, LinesContentList, LinesLinks,
                                  LinesDetect, LinesCounts} }
    /\ args \in [dry_run : {FALSE}, no_filter_commands : BOOLEAN, register : {FALSE}]
    /\ outFile = OldFile
    /\ store \in {s \in Stores : s.file = "missing"}
    /\ Start("detect", {"convert", "detect_model"})

\* ------------------------------------------------------------------------
\* detect_model
\* ------------------------------------------------------------------------

\* A bug: the scan stops at the first assistant record, model or not.
DetectRecord_FirstAssistant(d, first, model) ==
    IF d.k # "obj" THEN Raise
    ELSE LET ts    == Get(d, "timestamp", JNull)
             msg   == Get(d, "message", JNull)
             first1 == IF Truthy(ts) /\ first = JNull THEN ts ELSE first
         IN  IF Get(d, "type", JNull) = W("assistant") /\ msg.k = "obj"
             THEN [k |-> "ok", first |-> first1,
                   model |-> IF Truthy(Get(msg, "model", JNull))
                             THEN Get(msg, "model", JNull) ELSE JNull,
                   brk |-> TRUE]
             ELSE [k |-> "ok", first |-> first1, model |-> model, brk |-> FALSE]

\* One parsed line d of detect_model's loop: first_ts and model_id after
\* it and whether the loop breaks, or Raise.
DetectRecord(d, first, model) ==
    IF d.k # "obj" THEN Raise
    ELSE LET ts    == Get(d, "timestamp", JNull)
             msg   == Get(d, "message", JNull)
             first1 == IF Truthy(ts) /\ first = JNull THEN ts ELSE first
         IN  IF Get(d, "type", JNull) = W("assistant") /\ msg.k = "obj"
                /\ Truthy(Get(msg, "model", JNull))
             THEN [k |-> "ok", first |-> first1, model |-> Get(msg, "model", JNull),
                   brk |-> TRUE]
             ELSE [k |-> "ok", first |-> first1, model |-> model, brk |-> FALSE]

Abort(where) ==
    /\ pc' = "exited"
    /\ exitStatus' = 1
    /\ raisedIn' = where

\* main up to its call of detect_model or convert.
Main ==
    /\ pc = "main"
    /\ IF ~inputExists
       THEN /\ pc' = "exited"
            /\ exitStatus' = 1
            /\ UNCHANGED events
       ELSE /\ pc' = "detect"
            /\ events' = events \cup (IF args.dry_run THEN {"detect_model"}
                                      ELSE {"convert", "detect_model"})
            /\ UNCHANGED exitStatus
    /\ UNCHANGED <<input, inputExists, args, outFile, outBefore, store, lineNo,
                   first_ts, model_id, provider, id_map, converted, skipped,
                   errors, outcome, raisedIn>>

\* One iteration of detect_model's loop.
DetectLine ==
    /\ pc = "detect"
    /\ lineNo <= Len(input)
    /\ LET ln == input[lineNo]
           r  == IF ln.raw = "json" THEN DetectRecord(ln.v, first_ts, model_id)
                 ELSE [k |-> "ok", first |-> first_ts, model |-> model_id, brk |-> FALSE]
       IN  IF r = Raise
           THEN /\ Abort("detect_model")
                /\ UNCHANGED <<lineNo, first_ts, model_id>>
           ELSE /\ first_ts' = r.first
                /\ model_id' = r.model
                /\ pc' = IF r.brk THEN "detect_end" ELSE "detect"
                /\ lineNo' = IF r.brk THEN lineNo ELSE lineNo + 1
                /\ UNCHANGED <<exitStatus, raisedIn>>
    /\ UNCHANGED <<input, inputExists, args, outFile, outBefore, store, provider,
                   id_map, converted, skipped, errors, events, outcome>>

\* The end of detect_model: the defaults, and the return to the caller.
DetectReturn ==
    /\ IF pc = "detect" THEN lineNo > Len(input) ELSE pc = "detect_end"
    /\ \E now \in WallClock :
          first_ts' = IF first_ts = JNull THEN now ELSE first_ts
    /\ model_id' = IF model_id = JNull THEN FallbackModel ELSE model_id
    /\ pc' = IF args.dry_run THEN "dry_exit" ELSE "convert_open"
    /\ lineNo' = 1
    /\ UNCHANGED <<input, inputExists, args, outFile, outBefore, store, provider,
                   id_map, converted, skipped, errors, exitStatus, events,
                   outcome, raisedIn>>

\* main's dry-run branch after detect_model: print and exit.
DryRunExit ==
    /\ pc = "dry_exit"
    /\ pc' = "exited"
    /\ exitStatus' = 0
    /\ UNCHANGED <<input, inputExists, args, outFile, outBefore, store, lineNo,
                   first_ts, model_id, provider, id_map, converted, skipped,
                   errors, events, outcome, raisedIn>>

\* ------------------------------------------------------------------------
\* convert
\* ------------------------------------------------------------------------

\* convert from the return of detect_model to the loop: the split of the
\* model, the open of the output for writing, the two header lines.
ConvertOpen ==
    /\ pc = "convert_open"
    /\ LET split == ModelSplit(model_id) IN
       IF split = Raise
       THEN /\ Abort("convert")
            /\ UNCHANGED <<outFile, provider, model_id, events>>
       ELSE /\ provider' = split.provider
            /\ model_id' = split.model_id
            /\ outFile' = [exists |-> TRUE,
                           lines  |-> <<SessionHeader(first_ts, split.provider, split.model_id),
                                        ModelChange(first_ts, split.provider, split.model_id)>>]
            /\ events' = events \cup {"open_w"}
            /\ pc' = "convert_loop"
            /\ UNCHANGED <<exitStatus, raisedIn>>
    /\ UNCHANGED <<input, inputExists, args, outBefore, store, lineNo, first_ts,
                   id_map, converted, skipped, errors, outcome>>

\* What the loop body does with one line.
LineResult(ln, filter, first, idmap, fresh) ==
    IF ln.raw = "blank" THEN [res |-> "blank", map |-> idmap, at |-> "none"]
    ELSE IF ln.raw = "bad" THEN [res |-> "error", map |-> idmap, at |-> "none"]
    ELSE ConvertRecord(ln.v, filter, first, idmap, fresh)

\* One iteration of convert's loop.
ConvertLine ==
    /\ pc = "convert_loop"
    /\ lineNo <= Len(input)
    /\ \E fresh \in RandomUuids :
          LET r == LineResult(input[lineNo], filter_commands, first_ts, id_map, fresh)
          IN  /\ outcome' = Append(outcome, r.res)
              /\ id_map' = r.map
              /\ errors' = IF r.res = "error" THEN errors + 1 ELSE errors
              /\ skipped' = IF r.res = "skipped" THEN skipped + 1 ELSE skipped
              /\ converted' = IF r.res = "converted" THEN converted + 1 ELSE converted
              /\ outFile' = IF r.res = "converted"
                            THEN [outFile EXCEPT !.lines = Append(@, r.msg)]
                            ELSE outFile
              /\ IF r.res = "raised"
                 THEN /\ Abort(r.at)
                      /\ UNCHANGED lineNo
                 ELSE /\ lineNo' = lineNo + 1
                      /\ UNCHANGED <<pc, exitStatus, raisedIn>>
    /\ UNCHANGED <<input, inputExists, args, outBefore, store, first_ts, model_id,
                   provider, events>>

\* The end of the input: both files are closed and convert returns.
ConvertReturn ==
    /\ pc = "convert_loop"
    /\ lineNo > Len(input)
    /\ pc' = "validate"
    /\ UNCHANGED <<input, inputExists, args, outFile, outBefore, store, lineNo,
                   first_ts, model_id, provider, id_map, converted, skipped,
                   errors, exitStatus, events, outcome, raisedIn>>

\* ------------------------------------------------------------------------
\* validate_output, register_session, the end of main
\* ------------------------------------------------------------------------

\* json.loads of a line json.dumps wrote.
Parses(line) == line.k \in {"obj", "list", "str", "num", "bool", "null"}

validate_output(lines) ==
    [valid |-> \A n \in 1..Len(lines) : Parses(lines[n]),
     count |-> Cardinality({n \in 1..Len(lines) : \A m \in 1..n : Parses(lines[m])})]

ValidateOutput ==
    /\ pc = "validate"
    /\ events' = events \cup {"validate_output", "open_r"}
    /\ IF validate_output(outFile.lines).valid
       THEN /\ pc' = IF args.register THEN "register" ELSE "done"
            /\ UNCHANGED exitStatus
       ELSE /\ pc' = "exited"
            /\ exitStatus' = 1
    /\ UNCHANGED <<input, inputExists, args, outFile, outBefore, store, lineNo,
                   first_ts, model_id, provider, id_map, converted, skipped,
                   errors, outcome, raisedIn>>

\* register_session: sessions.json missing or unreadable is reported and
\* left alone; otherwise the entry is set, behind a best-effort backup.
RegisterSession ==
    /\ pc = "register"
    /\ events' = events \cup {"register_session"}
    /\ \E renamed \in BOOLEAN :
          store' = IF store.file # "ok" THEN store
                   ELSE [file |-> "ok", entry |-> TRUE,
                         backups |-> IF renamed THEN store.backups + 1
                                     ELSE store.backups]
    /\ pc' = "done"
    /\ UNCHANGED <<input, inputExists, args, outFile, outBefore, lineNo,
                   first_ts, model_id, provider, id_map, converted, skipped,
                   errors, exitStatus, outcome, raisedIn>>

MainDone ==
    /\ pc = "done"
    /\ pc' = "exited"
    /\ exitStatus' = 0
    /\ UNCHANGED <<input, inputExists, args, outFile, outBefore, store, lineNo,
                   first_ts, model_id, provider, id_map, converted, skipped,
                   errors, events, outcome, raisedIn>>

Next ==
    \/ Main
    \/ DetectLine
    \/ DetectReturn
    \/ DryRunExit
    \/ ConvertOpen
    \/ ConvertLine
    \/ ConvertReturn
    \/ ValidateOutput
    \/ RegisterSession
    \/ MainDone

Spec == Init /\ [][Next]_vars

NextConvert ==
    \/ DetectLine
    \/ DetectReturn
    \/ ConvertOpen
    \/ ConvertLine
    \/ ConvertReturn

SpecConvert == InitConvert /\ [][NextConvert]_vars

\* ------------------------------------------------------------------------
\* Observations
\* ------------------------------------------------------------------------

\* The lines convert's loop has dealt with.
Processed == 1..Len(outcome)

IsRecord(i) == input[i].raw = "json" /\ input[i].v.k = "obj"

TypeOf(i) == Get(input[i].v, "type", JNull)

MessageOf(i) == Get(input[i].v, "message", EmptyObj)

RoleOf(i) == IF MessageOf(i).k = "obj" THEN Get(MessageOf(i), "role", JNull) ELSE JNull

ContentOf(i) == IF MessageOf(i).k = "obj" THEN Get(MessageOf(i), "content", JNull) ELSE JNull

ModelOf(i) == IF MessageOf(i).k = "obj" THEN Get(MessageOf(i), "model", JNull) ELSE JNull

TimestampOf(i) == Get(input[i].v, "timestamp", JNull)

ParentOf(i) == Get(input[i].v, "parentUuid", JNull)

Conv(i) == i \in Processed /\ outcome[i] = "converted"

Count(res) == Cardinality({i \in Processed : outcome[i] = res})

\* The message line written for the converted line i.
LineOf(i) == outFile.lines[2 + Cardinality({j \in 1..i : outcome[j] = "converted"})]

HeaderWritten == "open_w" \in events

\* convert has returned, or an exception has ended it.
ConvertEnded == pc \in {"validate", "exited"}

HasMarker(s) == \E n \in 1..Len(COMMAND_NOISE) : Contains(s, COMMAND_NOISE[n])

AllBlank(s) == \A n \in 1..Len(s) : s[n] \in Whitespace

\* ------------------------------------------------------------------------
\* C1
\* ------------------------------------------------------------------------

\* C1: every record whose top-level type differs from its message.role is
\* skipped by convert: no message line is written for it.
C1_MismatchSkipped ==
    \A i \in Processed :
        IsRecord(i) /\ TypeOf(i) # RoleOf(i) => outcome[i] = "skipped"

\* A record of type user and role assistant has been converted, and its
\* message line carries the role assistant.
C1_MismatchConverted ==
    \E i \in Processed :
        /\ IsRecord(i)
        /\ TypeOf(i) = W("user")
        /\ RoleOf(i) = W("assistant")
        /\ outcome[i] = "converted"
        /\ converted = Count("converted")
        /\ LineOf(i).f.message.f.role = W("assistant")

\* ------------------------------------------------------------------------
\* C2
\* ------------------------------------------------------------------------

TypeIs(line, type) == line.k = "obj" /\ Get(line, "type", JNull) = W(type)

\* C2: for every input, once convert has ended the output begins with one
\* session line and one model_change line, before any message line, and the
\* two carry the same timestamp.
C2_HeaderFirst ==
    ConvertEnded =>
        LET out == outFile.lines IN
        /\ Len(out) >= 2
        /\ TypeIs(out[1], "session")
        /\ TypeIs(out[2], "model_change")
        /\ out[1].f.timestamp = out[2].f.timestamp
        /\ \A n \in 3..Len(out) : TypeIs(out[n], "message")

\* convert has ended in detect_model, on a line that is JSON but no object,
\* and the output is as it was found.
C2_NoHeader ==
    /\ pc = "exited"
    /\ raisedIn = "detect_model"
    /\ input[lineNo].raw = "json"
    /\ outFile = outBefore
    /\ ~HeaderWritten

\* ------------------------------------------------------------------------
\* C3
\* ------------------------------------------------------------------------

HasTimestamp(i) == IsRecord(i) /\ Truthy(TimestampOf(i))

FirstTimestamped ==
    CHOOSE i \in 1..Len(input) : HasTimestamp(i) /\ \A j \in 1..(i - 1) : ~HasTimestamp(j)

\* C3: the timestamp of the header lines is that of the first record of the
\* whole input that has one, and the wall clock is read only when no record
\* has one.
C3_FirstTimestampAnywhere ==
    HeaderWritten =>
        IF \E i \in 1..Len(input) : HasTimestamp(i)
        THEN outFile.lines[1].f.timestamp = TimestampOf(FirstTimestamped)
        ELSE outFile.lines[1].f.timestamp \in WallClock

\* The header carries the wall clock although the record after the first
\* announced model has a timestamp.
C3_TimestampMissed ==
    /\ HeaderWritten
    /\ Len(input) = 2
    /\ IsRecord(1) /\ TypeOf(1) = W("assistant") /\ Truthy(ModelOf(1))
    /\ ~HasTimestamp(1)
    /\ HasTimestamp(2)
    /\ outFile.lines[1].f.timestamp \in WallClock
    /\ outFile.lines[2].f.timestamp \in WallClock

\* ------------------------------------------------------------------------
\* C4
\* ------------------------------------------------------------------------

\* The raw string content holds a marker, or the space-joined text of the
\* normalized text blocks does.
Noisy(c) ==
    \/ c.k = "str" /\ HasMarker(c.s)
    \/ /\ normalize_content(c).k = "list"
       /\ HasMarker(Join(Texts(normalize_content(c).xs)))

\* The record reaches the noise filter: it passes the tests on type, isMeta
\* and role.
Candidate(i) ==
    /\ IsRecord(i)
    /\ TypeOf(i) \in Roles
    /\ ~Truthy(Get(input[i].v, "isMeta", JNull))
    /\ RoleOf(i) \in Roles

HasUuid(i) == "uuid" \in DOMAIN input[i].v.f

UuidOf(i) == input[i].v.f.uuid

IsShort(v) == v.k = "str" /\ Len(v.s) = ShortLen

\* C5: the message of a record whose parentUuid is the uuid of another
\* converted record has that record's id as parentId, whichever comes
\* first; one long identifier is always emitted as the same 8-character
\* id; a record without parentUuid has parentId null.
C5_ParentLinkage ==
    \A a \in Processed : \A b \in Processed :
        Conv(a) /\ Conv(b) =>
           /\ HasUuid(a) /\ Truthy(ParentOf(b)) /\ ParentOf(b) = UuidOf(a)
              => LineOf(b).f.parentId = LineOf(a).f.id
           /\ HasUuid(a) /\ HasUuid(b) /\ UuidOf(a) = UuidOf(b)
              => LineOf(a).f.id = LineOf(b).f.id
           /\ Truthy(ParentOf(a)) /\ ParentOf(a) = ParentOf(b)
              => LineOf(a).f.parentId = LineOf(b).f.parentId
           /\ IsShort(LineOf(a).f.id)
           /\ Truthy(ParentOf(a)) => IsShort(LineOf(a).f.parentId)
           /\ "parentUuid" \notin DOMAIN input[a].v.f => LineOf(a).f.parentId = JNull

\* The child came first: line 1 names as parent the uuid of line 2, both
\* are converted, and the child's parentId is the parent's id.
C5_ChildBeforeParent ==
    /\ Len(outcome) = 2
    /\ Conv(1) /\ Conv(2)
    /\ HasUuid(2)
    /\ HasUuid(1) /\ UuidOf(1) # UuidOf(2)
    /\ ParentOf(1) = UuidOf(2)
    /\ LineOf(1).f.parentId = LineOf(2).f.id

\* ------------------------------------------------------------------------
\* C6
\* ------------------------------------------------------------------------

\* C6: normalize_content never raises, so convert never ends on a record
\* because of its content.
C6_NormalizeTotal ==
    /\ raisedIn # "normalize_content"
    /\ \A i \in Processed : IsRecord(i) => normalize_content(ContentOf(i)) # Raise

\* convert has ended in normalize_content, on a content list that holds an
\* element that is no object.
C6_NormalizeRaised ==
    /\ pc = "exited"
    /\ raisedIn = "normalize_content"
    /\ outcome[Len(outcome)] = "raised"
    /\ ContentOf(Len(outcome)).k = "list"
    /\ \E n \in 1..Len(ContentOf(Len(outcome)).xs) : ContentOf(Len(outcome)).xs[n].k # "obj"

\* ------------------------------------------------------------------------
\* C7
\* ------------------------------------------------------------------------

\* No block of the list survives: each is a text block of blanks.
NoSurvivor(c) ==
    /\ c.k = "list"
    /\ \A n \in 1..Len(c.xs) :
          /\ c.xs[n].k = "obj"
          /\ Get(c.xs[n], "type", W("text")) = W("text")
          /\ Get(c.xs[n], "text", EmptyStr).k = "str"
          /\ AllBlank(Get(c.xs[n], "text", EmptyStr).s)

\* The content normalizes to absent.
AbsentContent(c) ==
    \/ c.k = "str" /\ AllBlank(c.s)
    \/ NoSurvivor(c)
    \/ c.k \notin {"str", "list"}

\* C7: a user or assistant record whose content normalizes to absent is
\* skipped, whatever filter_commands is: skipped counts it and no message
\* line is written for it.
C7_EmptySkipped ==
    /\ \A i \in Processed :
          IsRecord(i) /\ TypeOf(i) \in Roles /\ AbsentContent(ContentOf(i))
          => outcome[i] = "skipped"
    /\ HeaderWritten =>
          /\ skipped = Count("skipped")
          /\ Len(outFile.lines) = 2 + Count("converted")

\* Without filter_commands, a user record whose content is blanks only has
\* been skipped and nothing was written for it.
C7_BlankSkipped ==
    /\ ~filter_commands
    /\ Len(outcome) = 1
    /\ IsRecord(1)
    /\ RoleOf(1) = W("user")
    /\ ContentOf(1).k = "str"
    /\ ContentOf(1).s # <<>>
    /\ AllBlank(ContentOf(1).s)
    /\ outcome[1] = "skipped"
    /\ skipped = 1
    /\ Len(outFile.lines) = 2

\* ------------------------------------------------------------------------
\* C8
\* ------------------------------------------------------------------------

\* The run took main's dry-run branch.
DryRun == args.dry_run /\ "detect_model" \in events

\* C8: a dry run only detects the model and exits with status zero; it
\* never opens the output file and never enters convert, validate_output
\* or register_session, and leaves the output file as it found it.
C8_DryRunOnlyDetects ==
    DryRun /\ pc = "exited" =>
        /\ exitStatus = 0
        /\ events = {"detect_model"}
        /\ outFile = outBefore

\* A dry run has ended with status 1, detect_model having raised on a line
\* that is JSON but no object.
C8_DryRunFailed ==
    /\ DryRun
    /\ pc = "exited"
    /\ exitStatus = 1
    /\ raisedIn = "detect_model"
    /\ input[lineNo].raw = "json"
    /\ input[lineNo].v.k # "obj"

\* The part of C8 that the code keeps: whatever a dry run does, the output
\* file is as it was found and only detect_model is entered.
DryRunFrame ==
    args.dry_run => outFile = outBefore /\ events \subseteq {"detect_model"}

\* ------------------------------------------------------------------------
\* C9
\* ------------------------------------------------------------------------

IsAssistant(i) == IsRecord(i) /\ TypeOf(i) = W("assistant")

\* The record announces a model.
Announces(i) == IsAssistant(i) /\ Truthy(ModelOf(i))

FirstAssistant ==
    CHOOSE i \in 1..Len(input) : IsAssistant(i) /\ \A j \in 1..(i - 1) : ~IsAssistant(j)

FirstAnnouncing ==
    CHOOSE i \in 1..Len(input) : Announces(i) /\ \A j \in 1..(i - 1) : ~Announces(j)

\* detect_model has returned to convert.
DetectReturned == pc = "convert_open"

\* C9 as stated: detect_model returns the message.model of the first
\* assistant-typed record, and the fallback exactly when no assistant
\* record announces a model.
C9_FirstAssistantModel ==
    DetectReturned =>
        /\ model_id = FallbackModel <=> ~\E i \in 1..Len(input) : Announces(i)
        /\ (\E i \in 1..Len(input) : Announces(i)) => model_id = ModelOf(FirstAssistant)

\* C9 as amended: detect_model returns the message.model of the first
\* assistant-typed record that carries a non-empty one, and the fallback
\* when none does; a line that fails to parse never ends the scan.
C9_FirstAnnouncedModel ==
    /\ DetectReturned =>
          model_id = IF \E i \in 1..Len(input) : Announces(i)
                     THEN ModelOf(FirstAnnouncing)
                     ELSE FallbackModel
    /\ raisedIn = "detect_model" => input[lineNo].raw = "json"

\* detect_model has passed over an assistant record without a model and
\* returned the model of the next one.
C9_PassedOver ==
    /\ DetectReturned
    /\ Len(input) = 2
    /\ IsAssistant(1)
    /\ ~Announces(1)
    /\ Announces(2)
    /\ model_id = ModelOf(2)
    /\ model_id # FallbackModel

\* ------------------------------------------------------------------------
\* C10
\* ------------------------------------------------------------------------

\* The message line is that of record i: its role, its content and, when
\* the record has them, its uuid's short id and its timestamp.
FromRecord(line, i) ==
    /\ TypeIs(line, "message")
    /\ line.f.message.f.role = RoleOf(i)
    /\ line.f.message.f.content = normalize_content(ContentOf(i))
    /\ HasUuid(i) => line.f.id = JStr(short_id(UuidOf(i).s))
    /\ "timestamp" \in DOMAIN input[i].v.f => line.f.timestamp = TimestampOf(i)

NonBlank == {i \in 1..Len(input) : input[i].raw # "blank"}

\* C10: every non-blank line adds one to exactly one of converted, skipped
\* and errors (errors exactly for the lines that fail to parse), so that
\* once convert has ended the three add up to the number of non-blank
\* lines, and the output holds 2 + converted lines, the k-th message line
\* being that of the k-th converted line.
C10_EveryLineCounted ==
    ConvertEnded =>
        /\ converted + skipped + errors = Cardinality(NonBlank)
        /\ errors = Cardinality({i \in 1..Len(input) : input[i].raw = "bad"})
        /\ Len(outFile.lines) = 2 + converted
        /\ \A i \in Processed : Conv(i) => FromRecord(LineOf(i), i)

\* convert has ended on a line that no counter counts.
C10_LineUncounted ==
    /\ pc = "exited"
    /\ raisedIn = "normalize_content"
    /\ outcome[Len(outcome)] = "raised"
    /\ input[Len(outcome)].raw = "json"
    /\ converted + skipped + errors < Cardinality(NonBlank)

\* The part of C10 that the code keeps: the lines dealt with without an
\* exception are each counted once, and on return every non-blank line is.
CountsOnReturn ==
    HeaderWritten =>
        /\ converted = Count("converted")
        /\ skipped = Count("skipped")
        /\ errors = Count("error")
        /\ \A i \in Processed : outcome[i] = "error" <=> input[i].raw = "bad"
        /\ \A i \in Processed : outcome[i] = "blank" <=> input[i].raw = "blank"
        /\ Len(outFile.lines) = 2 + converted
        /\ \A i \in Processed : Conv(i) => FromRecord(LineOf(i), i)
        /\ pc = "validate" => converted + skipped + errors = Cardinality(NonBlank)

\* The part of C2 that the code keeps: what has been written is the session
\* line, the model_change line with the same timestamp, then message lines.
HeaderBeforeMessages ==
    HeaderWritten =>
        LET out == outFile.lines IN
        /\ Len(out) >= 2
        /\ TypeIs(out[1], "session")
        /\ TypeIs(out[2], "model_change")
        /\ out[1].f.timestamp = out[2].f.timestamp
        /\ \A n \in 3..Len(out) : TypeIs(out[n], "message")

=============================================================================
